---- MODULE Spec2Model ----
(***************************************************************************)
(* Email triage pipeline of emailScanner: the rules engine (rules.py),     *)
(* sender memory (sender_memory.py), confidence calibration                *)
(* (confidence_calibration.py), the scanner's per-message pipeline         *)
(* (scanner.py), the single-message rescan (rescan_email.py), the review   *)
(* endpoints (app.py), the cleanup and sync scripts (cleanup.py,           *)
(* sync_status.py) and concurrent scanner sessions, over the tables of     *)
(* models.py.                                                              *)
(*                                                                         *)
(* Confidence scores are exact rationals <<n, d>> in lowest terms (the     *)
(* code uses floats; rounding error of float arithmetic is not modelled).  *)
(* Keyword, regex and substring tests on sender/subject/body are modelled  *)
(* by their outcome, a boolean feature of the message.                     *)
(***************************************************************************)
EXTENDS Integers, Sequences, FiniteSets, TLC

VARIABLES emails, analysis, decisions, input, last,
          deleted_at, approved_delete, sessions

(* deleted_at: the Email rows whose deleted_at column is not NULL.         *)
(* approved_delete: history variable, the messages whose Decision row was  *)
(* last written as an approval while the Analysis row recommended delete.  *)
(* sessions: the database sessions of scanner processes that are in the    *)
(* middle of _process_email, with their uncommitted writes.                *)
aux == <<deleted_at, approved_delete, sessions>>

vars == <<emails, analysis, decisions, input, last, aux>>

(* no message marked deleted, no approval recorded, no scanner running *)
Untouched ==
    /\ deleted_at = {}
    /\ approved_delete = {}
    /\ sessions = <<>>

(* Python None, for a result that is a dict or None *)
None == [none |-> TRUE]

(* SQL NULL in a text column *)
Null == "NULL"

-----------------------------------------------------------------------------
(* Rational arithmetic for confidence scores and rates *)

RECURSIVE GCD(_, _)
GCD(a, b) == IF b = 0 THEN a ELSE GCD(b, a % b)

QAbsInt(x) == IF x < 0 THEN -x ELSE x

Q(n, d) ==
    LET g == GCD(QAbsInt(n), d)
    IN  IF n = 0 THEN <<0, 1>> ELSE <<n \div g, d \div g>>

QAdd(a, b) == Q(a[1] * b[2] + b[1] * a[2], a[2] * b[2])
QSub(a, b) == Q(a[1] * b[2] - b[1] * a[2], a[2] * b[2])
QHalf(a) == Q(a[1], 2 * a[2])
QDivInt(a, k) == Q(a[1], a[2] * k)
QLt(a, b) == a[1] * b[2] < b[1] * a[2]
QLe(a, b) == a[1] * b[2] <= b[1] * a[2]
QAbs(a) == <<QAbsInt(a[1]), a[2]>>
QMax(a, b) == IF QLt(a, b) THEN b ELSE a
QMin(a, b) == IF QLt(b, a) THEN b ELSE a
Pct(p) == Q(p, 100)
QZero == Q(0, 1)
QOne == Q(1, 1)

-----------------------------------------------------------------------------
(* rules.py: configuration defaults and the rules engine *)

old_event_days == 60
old_job_days == 180
old_newsletter_days == 7
old_promotional_days == 90
MaxPersonalSubjectWords == 6

RuleResult(rec, conf, cat, rule) ==
    [recommendation |-> rec, confidence_score |-> Pct(conf),
     category |-> cat, rule_matched |-> rule]

is_vip_sender(e) == e.vip

is_event(e) == e.event

is_old_event(e) ==
    IF ~is_event(e) THEN FALSE ELSE e.age > old_event_days

looks_like_personal(e) ==
    IF e.automated THEN FALSE
    ELSE IF e.promoPattern THEN FALSE
    ELSE IF e.webmail THEN e.words <= MaxPersonalSubjectWords
    ELSE FALSE

is_old_job_offer(e) ==
    IF e.age < old_job_days THEN FALSE ELSE e.job

is_old_newsletter(e) ==
    IF e.age < old_newsletter_days THEN FALSE ELSE e.newsletter

is_old_promotional(e) ==
    IF e.age < old_promotional_days THEN FALSE ELSE e.promo

check_email_VipFirst(e) ==
    IF is_vip_sender(e)
        THEN RuleResult("keep", 99, "personal", "vip_sender")
    ELSE IF e.hasDate /\ is_old_event(e)
        THEN RuleResult("delete", 93, "event", "old_event")
    ELSE IF is_event(e)
        THEN RuleResult("keep", 95, "event", "event")
    ELSE None

(* old newsletters tested before old job offers *)
check_email_NewsletterBeforeJob(e) ==
    IF e.hasDate /\ is_old_event(e)
        THEN RuleResult("delete", 93, "event", "old_event")
    ELSE IF is_vip_sender(e)
        THEN RuleResult("keep", 99, "personal", "vip_sender")
    ELSE IF is_event(e)
        THEN RuleResult("keep", 95, "event", "event")
    ELSE IF looks_like_personal(e)
        THEN RuleResult("keep", 90, "personal", "personal_contact")
    ELSE IF e.hasDate /\ is_old_newsletter(e)
        THEN RuleResult("delete", 93, "newsletter", "old_newsletter")
    ELSE IF e.hasDate /\ is_old_job_offer(e)
        THEN RuleResult("delete", 92, "job", "old_job_offer")
    ELSE IF e.hasDate /\ is_old_promotional(e)
        THEN RuleResult("delete", 94, "promotional", "old_promotional")
    ELSE None

check_email(e) ==
    IF e.hasDate /\ is_old_event(e)
        THEN RuleResult("delete", 93, "event", "old_event")
    ELSE IF is_vip_sender(e)
        THEN RuleResult("keep", 99, "personal", "vip_sender")
    ELSE IF is_event(e)
        THEN RuleResult("keep", 95, "event", "event")
    ELSE IF looks_like_personal(e)
        THEN RuleResult("keep", 90, "personal", "personal_contact")
    ELSE IF e.hasDate /\ is_old_job_offer(e)
        THEN RuleResult("delete", 92, "job", "old_job_offer")
    ELSE IF e.hasDate /\ is_old_newsletter(e)
        THEN RuleResult("delete", 93, "newsletter", "old_newsletter")
    ELSE IF e.hasDate /\ is_old_promotional(e)
        THEN RuleResult("delete", 94, "promotional", "old_promotional")
    ELSE None

(* Inputs of the rules engine: the outcome of each keyword/sender test and *)
(* the age in whole days, around each configured threshold.                *)
Ages ==
    UNION {{t - 1, t, t + 1} :
           t \in {old_event_days, old_job_days, old_newsletter_days,
                  old_promotional_days}}

WordCounts == {MaxPersonalSubjectWords, MaxPersonalSubjectWords + 1}

EmailFeatures ==
    [vip : BOOLEAN, event : BOOLEAN, automated : BOOLEAN,
     promoPattern : BOOLEAN, webmail : BOOLEAN, words : WordCounts,
     job : BOOLEAN, newsletter : BOOLEAN, promo : BOOLEAN,
     hasDate : BOOLEAN, age : Ages]

InitRules ==
    /\ emails = {}
    /\ analysis = {}
    /\ decisions = {}
    /\ input \in EmailFeatures
    /\ last = [op |-> "init"] /\ Untouched

CheckEmail ==
    /\ last.op = "init"
    /\ last' = [op |-> "check_email", result |-> check_email(input)]
    /\ UNCHANGED <<emails, analysis, decisions, input, aux>>

NextRules == CheckEmail

SpecRules == InitRules /\ [][NextRules]_vars

-----------------------------------------------------------------------------
(* models.py: tables.  emails is the set of stored Email rows, identified  *)
(* by the mailbox uid (emails.email_id is unique); analysis and decisions  *)
(* are the sets of rows of the two tables.  Two rows of one table may      *)
(* carry the same email_id only if a commit admits it (UniqueEmailId).     *)

AnalysisRow(eid, res) ==
    [email_id |-> eid, recommendation |-> res.recommendation,
     confidence_score |-> res.confidence_score, category |-> res.category,
     model_name |-> res.model_name, status |-> "pending_review"]

DecisionRow(eid, approved, action) ==
    [email_id |-> eid, approved |-> approved, action_taken |-> action]

(* unique=True on analysis.email_id and decisions.email_id *)
UniqueEmailId(t) ==
    \A r1, r2 \in t : r1.email_id = r2.email_id => r1 = r2

HasRow(t, eid) == \E r \in t : r.email_id = eid

(* query(T).filter_by(email_id=eid).first(), when a row exists *)
FirstRow(t, eid) == CHOOSE r \in t : r.email_id = eid

(* Decision JOIN Email JOIN Analysis on the email id: pairs of rows *)
JoinRows(em, an, de) ==
    {p \in de \X an :
        /\ p[1].email_id = p[2].email_id
        /\ p[1].email_id \in em}

RECURSIVE SumConfidence(_)
SumConfidence(S) ==
    IF S = {} THEN QZero
    ELSE LET p == CHOOSE x \in S : TRUE
         IN  QAdd(p[2].confidence_score, SumConfidence(S \ {p}))

-----------------------------------------------------------------------------
(* confidence_calibration.py *)

MinSamples == 5
CalibrationShare == 2

buckets ==
    << [min |-> Pct(0),  max |-> Pct(50),  name |-> "very_low"],
       [min |-> Pct(50), max |-> Pct(70),  name |-> "low"],
       [min |-> Pct(70), max |-> Pct(85),  name |-> "medium"],
       [min |-> Pct(85), max |-> Pct(95),  name |-> "high"],
       [min |-> Pct(95), max |-> Pct(100), name |-> "very_high"] >>

BucketNames == {buckets[i].name : i \in DOMAIN buckets}

BucketOf(name) == CHOOSE b \in {buckets[i] : i \in DOMAIN buckets} : b.name = name

(* every bucket closed on both ends *)
InBucketFilter_ClosedAbove(c, b) ==
    /\ QLe(b.min, c)
    /\ QLe(c, b.max)

(* the filter of the bucket query on Analysis.confidence_score *)
InBucketFilter(c, b) ==
    /\ QLe(b.min, c)
    /\ IF QLt(b.max, QOne) THEN QLt(c, b.max) ELSE QLe(c, b.max)

(* 'sample_size_sufficient': total >= 5 *)
SampleSizeSufficient_Strict(total) == total > MinSamples

SampleSizeSufficient(total) == total >= MinSamples

BucketStat(b, em, an, de) ==
    LET rows == {p \in JoinRows(em, an, de) :
                    /\ InBucketFilter(p[2].confidence_score, b)
                    /\ p[1].action_taken # Null}
        total == Cardinality(rows)
        correct == Cardinality({p \in rows : p[1].approved})
        avg == IF total = 0 THEN QZero
               ELSE QDivInt(SumConfidence(rows), total)
        (* "results.avg_confidence or midpoint": both None (no row) and 0.0 *)
        (* are falsy and give the midpoint of the bucket                    *)
        avg_confidence == IF total = 0 \/ avg = QZero
                          THEN QHalf(QAdd(b.min, b.max)) ELSE avg
        accuracy == IF total > 0 THEN Q(correct, total) ELSE QZero
    IN  [total_decisions |-> total,
         correct_decisions |-> correct,
         accuracy |-> accuracy,
         avg_stated_confidence |-> avg_confidence,
         calibration_error |-> IF total > 0 THEN QSub(avg_confidence, accuracy)
                                ELSE QZero,
         sample_size_sufficient |-> SampleSizeSufficient(total)]

get_bucket_stats(em, an, de) ==
    [name \in BucketNames |-> BucketStat(BucketOf(name), em, an, de)]

(* the bucket search loop of calibrate_confidence: first bucket that matches *)
FindBucket(stated) ==
    LET hit(i) == \/ (QLe(buckets[i].min, stated) /\ QLt(stated, buckets[i].max))
                  \/ (buckets[i].max = QOne /\ QLe(stated, buckets[i].max))
    IN  IF \E i \in DOMAIN buckets : hit(i)
        THEN buckets[CHOOSE i \in DOMAIN buckets :
                        hit(i) /\ \A k \in DOMAIN buckets : hit(k) => i <= k].name
        ELSE Null

(* the correction applied whatever the number of samples in the bucket *)
calibrate_confidence_NoSampleGuard(stated, em, an, de) ==
    LET bucket_name == FindBucket(stated)
    IN  IF bucket_name = Null THEN stated
        ELSE LET bucket_stats == get_bucket_stats(em, an, de)[bucket_name]
             IN  QMax(QZero, QMin(QOne,
                    QSub(stated,
                         QDivInt(QSub(bucket_stats.avg_stated_confidence,
                                      bucket_stats.accuracy),
                                 CalibrationShare))))

calibrate_confidence(stated, em, an, de) ==
    LET bucket_name == FindBucket(stated)
    IN  IF bucket_name = Null THEN stated
        ELSE LET bucket_stats == get_bucket_stats(em, an, de)[bucket_name]
             IN  IF ~bucket_stats.sample_size_sufficient THEN stated
                 ELSE QMax(QZero, QMin(QOne,
                        QSub(stated,
                             QDivInt(bucket_stats.calibration_error,
                                     CalibrationShare))))

(* Inputs of the calibrator: a reviewed history of CalRows model verdicts  *)
(* whose stated confidences alternate between two values, the first k of   *)
(* them approved, and the stated confidence to calibrate.                  *)
CalMaxRows == 10

ConfValues == {0, 40, 60, 90, 97, 100}

CalAnalysis(n, c1, c2, k) ==
    {[email_id |-> i, recommendation |-> "delete",
      confidence_score |-> Pct(IF i % 2 = 1 THEN c1 ELSE c2),
      category |-> "newsletter", model_name |-> "llm",
      status |-> IF i <= k THEN "approved" ELSE "rejected"] : i \in 1..n}

CalDecisions(n, k) ==
    {DecisionRow(i, i <= k, IF i <= k THEN "deleted" ELSE "kept") : i \in 1..n}

InitCal ==
    \E n \in 0..CalMaxRows, c1 \in ConfValues, c2 \in ConfValues,
       s \in ConfValues :
      \E k \in 0..n :
        /\ emails = 1..n
        /\ analysis = CalAnalysis(n, c1, c2, k)
        /\ decisions = CalDecisions(n, k)
        /\ input = [stated |-> Pct(s)]
        /\ last = [op |-> "init"] /\ Untouched

Calibrate ==
    /\ last.op = "init"
    /\ last' = [op |-> "calibrate",
                result |-> calibrate_confidence(input.stated, emails,
                                                analysis, decisions)]
    /\ UNCHANGED <<emails, analysis, decisions, input, aux>>

NextCal == Calibrate

SpecCal == InitCal /\ [][NextCal]_vars

(* The bucket of one confidence: the database holds one reviewed verdict   *)
(* stored with the confidence that is also the stated confidence to        *)
(* calibrate; the step finds the bucket calibrate_confidence uses and the  *)
(* number of decisions each bucket's statistics count.                     *)
StatedValues == {Pct(s) : s \in 0..100}

InitBucket ==
    \E c \in StatedValues, approved \in BOOLEAN :
        /\ emails = {1}
        /\ analysis = {[email_id |-> 1, recommendation |-> "delete",
                        confidence_score |-> c, category |-> "newsletter",
                        model_name |-> "llm",
                        status |-> IF approved THEN "approved" ELSE "rejected"]}
        /\ decisions = {DecisionRow(1, approved,
                                    IF approved THEN "deleted" ELSE "kept")}
        /\ input = [stated |-> c]
        /\ last = [op |-> "init"] /\ Untouched

AssignBucket ==
    /\ last.op = "init"
    /\ \E stats \in {get_bucket_stats(emails, analysis, decisions)} :
          last' = [op |-> "bucket",
                   result |-> FindBucket(input.stated),
                   counted |-> {name \in BucketNames :
                                   stats[name].total_decisions > 0}]
    /\ UNCHANGED <<emails, analysis, decisions, input, aux>>

NextBucket == AssignBucket

SpecBucket == InitBucket /\ [][NextBucket]_vars

-----------------------------------------------------------------------------
(* The mail: input.mail maps each uid to the message the mail server      *)
(* returns for it (immutable once fetched), input.inbox is the set of uids *)
(* a search of the folder returns.                                         *)

Sender(m) == input.mail[m].sender

EmailData(m) == input.mail[m]

PlainMail(sender) ==
    [sender |-> sender, vip |-> FALSE, event |-> FALSE, automated |-> FALSE,
     promoPattern |-> FALSE, webmail |-> FALSE,
     words |-> MaxPersonalSubjectWords, job |-> FALSE, newsletter |-> FALSE,
     promo |-> FALSE, hasDate |-> TRUE, age |-> old_promotional_days + 1]

(* an old promotional mail: rule 7 *)
PromoMail(sender) == [PlainMail(sender) EXCEPT !.promo = TRUE]

-----------------------------------------------------------------------------
(* sender_memory.py *)

PatternMinDecisions == 3
PatternRate == Pct(90)

(* a sender "has a pattern" from 2 decisions on *)
has_pattern_TwoDecisions(total, keep_rate, delete_rate) ==
    /\ total >= PatternMinDecisions - 1
    /\ (QLe(PatternRate, keep_rate) \/ QLe(PatternRate, delete_rate))

(* line 66: total >= 3 and (keep_rate >= 0.9 or delete_rate >= 0.9) *)
has_pattern(total, keep_rate, delete_rate) ==
    /\ total >= PatternMinDecisions
    /\ (QLe(PatternRate, keep_rate) \/ QLe(PatternRate, delete_rate))

(* archived decisions left out of the total *)
get_sender_stats_ArchivedExcluded(sender, em, an, de) ==
    LET rows == {p \in JoinRows(em, an, de) : Sender(p[1].email_id) = sender}
        kept == Cardinality({p \in rows : p[1].action_taken = "kept"})
        deleted == Cardinality({p \in rows : p[1].action_taken = "deleted"})
        total == kept + deleted
        keep_rate == IF total > 0 THEN Q(kept, total) ELSE QZero
        delete_rate == IF total > 0 THEN Q(deleted, total) ELSE QZero
    IN  [total_decisions |-> total, kept_count |-> kept,
         deleted_count |-> deleted,
         keep_rate |-> keep_rate, delete_rate |-> delete_rate,
         has_pattern |-> has_pattern(total, keep_rate, delete_rate)]

get_sender_stats(sender, em, an, de) ==
    LET rows == {p \in JoinRows(em, an, de) : Sender(p[1].email_id) = sender}
        total == Cardinality(rows)
        kept == Cardinality({p \in rows : p[1].action_taken = "kept"})
        deleted == Cardinality({p \in rows : p[1].action_taken = "deleted"})
        keep_rate == IF total > 0 THEN Q(kept, total) ELSE QZero
        delete_rate == IF total > 0 THEN Q(deleted, total) ELSE QZero
    IN  [total_decisions |-> total, kept_count |-> kept,
         deleted_count |-> deleted,
         keep_rate |-> keep_rate, delete_rate |-> delete_rate,
         has_pattern |-> has_pattern(total, keep_rate, delete_rate)]

should_skip_llm(sender, em, an, de) ==
    LET stats == get_sender_stats(sender, em, an, de)
    IN  IF ~stats.has_pattern THEN None
        ELSE IF QLe(PatternRate, stats.keep_rate)
            THEN [recommendation |-> "keep",
                  confidence_score |-> stats.keep_rate,
                  reasoning |-> <<"kept", stats.kept_count,
                                  stats.total_decisions>>,
                  category |-> "pattern_learned"]
        ELSE IF QLe(PatternRate, stats.delete_rate)
            THEN [recommendation |-> "delete",
                  confidence_score |-> stats.delete_rate,
                  reasoning |-> <<"deleted", stats.deleted_count,
                                  stats.total_decisions>>,
                  category |-> "pattern_learned"]
        ELSE None

(* Inputs of should_skip_llm: a sender "a" with kept, deleted and archived *)
(* decisions, at most MaxSenderDecisions in all, beside OtherDecisions     *)
(* "deleted" decisions on mail of a sender "b".                            *)
MaxSenderDecisions == 10

OtherDecisions == {0, 3}

SenderAnalysis(n) ==
    {[email_id |-> i, recommendation |-> "keep",
      confidence_score |-> Pct(60), category |-> "personal",
      model_name |-> "llm", status |-> "approved"] : i \in 1..n}

SenderDecisions(k, d, a, o) ==
    {DecisionRow(i, TRUE,
                 IF i <= k THEN "kept"
                 ELSE IF i <= k + d THEN "deleted"
                 ELSE IF i <= k + d + a THEN "archived"
                 ELSE "deleted") : i \in 1..(k + d + a + o)}

InitSender ==
    \E k \in 0..MaxSenderDecisions, d \in 0..MaxSenderDecisions,
       a \in 0..MaxSenderDecisions, o \in OtherDecisions :
        /\ k + d + a <= MaxSenderDecisions
        /\ input = [mail |-> [m \in 1..(k + d + a + o) |->
                                PlainMail(IF m <= k + d + a THEN "a" ELSE "b")],
                    inbox |-> {}]
        /\ emails = 1..(k + d + a + o)
        /\ analysis = SenderAnalysis(k + d + a + o)
        /\ decisions = SenderDecisions(k, d, a, o)
        /\ last = [op |-> "init"] /\ Untouched

SkipLLM ==
    /\ last.op = "init"
    /\ last' = [op |-> "should_skip_llm",
                result |-> should_skip_llm("a", emails, analysis, decisions)]
    /\ UNCHANGED <<emails, analysis, decisions, input, aux>>

NextSender == SkipLLM

SpecSender == InitSender /\ [][NextSender]_vars

(* get_similar_decisions: the examples are returned as the sequence of the *)
(* email ids of the joined rows.  Decision rows carry decided_at here.     *)

(* ORDER BY Decision.decided_at DESC LIMIT n over a set of joined rows *)
RECURSIVE OrderDescLimit(_, _)
OrderDescLimit(rows, n) ==
    IF rows = {} \/ n <= 0 THEN <<>>
    ELSE LET p == CHOOSE x \in rows :
                    \A y \in rows : y[1].decided_at <= x[1].decided_at
         IN  <<p>> \o OrderDescLimit(rows \ {p}, n - 1)

(* the category query without its "different sender" filter *)
get_similar_decisions_AnySender(sender, category, limit, em, an, de) ==
    LET joined == JoinRows(em, an, de)
        own == OrderDescLimit(
                  {p \in joined : Sender(p[1].email_id) = sender}, limit)
        category_decisions ==
            IF Len(own) < limit
            THEN OrderDescLimit({p \in joined : p[2].category = category},
                                limit - Len(own))
            ELSE <<>>
        all == own \o category_decisions
    IN  [i \in 1..Len(all) |-> all[i][1].email_id]

get_similar_decisions(sender, category, limit, em, an, de) ==
    LET joined == JoinRows(em, an, de)
        own == OrderDescLimit(
                  {p \in joined : Sender(p[1].email_id) = sender}, limit)
        category_decisions ==
            IF Len(own) < limit
            THEN OrderDescLimit({p \in joined :
                                    /\ p[2].category = category
                                    /\ Sender(p[1].email_id) # sender},
                                limit - Len(own))
            ELSE <<>>
        all == own \o category_decisions
    IN  [i \in 1..Len(all) |-> all[i][1].email_id]

(* Inputs of get_similar_decisions: a history of up to MaxExampleRows       *)
(* decided mails, each of sender "a" or "b" and category "newsletter" or   *)
(* "personal", decided in the order of their ids or in the reverse order;  *)
(* the examples asked for are those for sender "a", category "newsletter". *)
MaxExampleRows == 5

MaxLimit == 3

ExampleAnalysis(n, cat) ==
    {[email_id |-> i, recommendation |-> "delete",
      confidence_score |-> Pct(90), category |-> cat[i],
      model_name |-> "llm", status |-> "approved"] : i \in 1..n}

ExampleDecisions(n, rev) ==
    {[email_id |-> i, approved |-> TRUE, action_taken |-> "deleted",
      decided_at |-> IF rev THEN n + 1 - i ELSE i] : i \in 1..n}

InitExamples ==
    \E n \in 0..MaxExampleRows, rev \in BOOLEAN, limit \in 1..MaxLimit :
      \E snd \in [1..n -> {"a", "b"}],
         cat \in [1..n -> {"newsletter", "personal"}] :
        /\ input = [mail |-> [m \in 1..n |-> PlainMail(snd[m])],
                    inbox |-> {}, limit |-> limit]
        /\ emails = 1..n
        /\ analysis = ExampleAnalysis(n, cat)
        /\ decisions = ExampleDecisions(n, rev)
        /\ last = [op |-> "init"] /\ Untouched

SimilarDecisions ==
    /\ last.op = "init"
    /\ last' = [op |-> "get_similar_decisions",
                result |-> get_similar_decisions("a", "newsletter",
                              input.limit, emails, analysis, decisions)]
    /\ UNCHANGED <<emails, analysis, decisions, input, aux>>

NextExamples == SimilarDecisions

SpecExamples == InitExamples /\ [][NextExamples]_vars

-----------------------------------------------------------------------------
(* learn_patterns.py: the three GROUP BY scans over the decisions.  The    *)
(* result lists are modelled as sets (the order of the groups is the       *)
(* database's).                                                            *)

SenderMinDecisions == 10
SenderThreshold == Pct(90)
CategoryMinDecisions == 15
CategoryThreshold == Pct(85)
DomainMinDecisions == 8
DomainThreshold == Pct(90)

(* substr(sender, instr(sender, '@') + 1) of the senders of the model *)
DomainOf(sender) ==
    IF sender \in {"a@x", "b@x"} THEN "x" ELSE sender

(* Decision JOIN Email *)
DecisionEmailRows(em, de) == {d \in de : d.email_id \in em}

(* total, keep_count, delete_count of one group of decisions *)
GroupCounts(D) ==
    [total |-> Cardinality(D),
     keep_count |-> Cardinality({d \in D : d.action_taken = "kept"}),
     delete_count |-> Cardinality({d \in D : d.action_taken = "deleted"})]

Rate(count, total) == IF total > 0 THEN Q(count, total) ELSE QZero

get_sender_patterns(em, an, de) ==
    LET rows == DecisionEmailRows(em, de)
        group(s) == GroupCounts({d \in rows : Sender(d.email_id) = s})
        results == {s \in {Sender(d.email_id) : d \in rows} :
                        group(s).total >= SenderMinDecisions}
        keep_rate(s) == Rate(group(s).keep_count, group(s).total)
        delete_rate(s) == Rate(group(s).delete_count, group(s).total)
    IN  {[sender |-> s, action |-> "keep",
          total_decisions |-> group(s).total,
          consistency_rate |-> keep_rate(s), rule_type |-> "vip_sender"] :
            s \in {x \in results : QLe(SenderThreshold, keep_rate(x))}}
        \cup
        {[sender |-> s, action |-> "delete",
          total_decisions |-> group(s).total,
          consistency_rate |-> delete_rate(s), rule_type |-> "auto_delete"] :
            s \in {x \in results : /\ ~QLe(SenderThreshold, keep_rate(x))
                                   /\ QLe(SenderThreshold, delete_rate(x))}}

(* the category scan run with the minimum and threshold of the sender scan *)
get_category_patterns_SenderThresholds(em, an, de) ==
    LET rows == JoinRows(em, an, de)
        group(c) == GroupCounts({p[1] : p \in {q \in rows : q[2].category = c}})
        results == {c \in {p[2].category : p \in rows} :
                        group(c).total >= SenderMinDecisions}
        delete_rate(c) == Rate(group(c).delete_count, group(c).total)
    IN  {[category |-> c, action |-> "delete",
          total_decisions |-> group(c).total,
          consistency_rate |-> delete_rate(c)] :
            c \in {x \in results : QLe(SenderThreshold, delete_rate(x))}}

get_category_patterns(em, an, de) ==
    LET rows == JoinRows(em, an, de)
        group(c) == GroupCounts({p[1] : p \in {q \in rows : q[2].category = c}})
        results == {c \in {p[2].category : p \in rows} :
                        group(c).total >= CategoryMinDecisions}
        delete_rate(c) == Rate(group(c).delete_count, group(c).total)
    IN  {[category |-> c, action |-> "delete",
          total_decisions |-> group(c).total,
          consistency_rate |-> delete_rate(c)] :
            c \in {x \in results : QLe(CategoryThreshold, delete_rate(x))}}

(* the domain scan with the keep branch of the sender scan *)
get_domain_patterns_KeepToo(em, an, de) ==
    LET rows == DecisionEmailRows(em, de)
        group(g) == GroupCounts({d \in rows : DomainOf(Sender(d.email_id)) = g})
        results == {g \in {DomainOf(Sender(d.email_id)) : d \in rows} :
                        group(g).total >= DomainMinDecisions}
        keep_rate(g) == Rate(group(g).keep_count, group(g).total)
        delete_rate(g) == Rate(group(g).delete_count, group(g).total)
    IN  {[domain |-> g, action |-> "keep",
          total_decisions |-> group(g).total,
          consistency_rate |-> keep_rate(g),
          rule_type |-> "domain_auto_delete"] :
            g \in {x \in results : QLe(DomainThreshold, keep_rate(x))}}
        \cup
        {[domain |-> g, action |-> "delete",
          total_decisions |-> group(g).total,
          consistency_rate |-> delete_rate(g),
          rule_type |-> "domain_auto_delete"] :
            g \in {x \in results : /\ ~QLe(DomainThreshold, keep_rate(x))
                                   /\ QLe(DomainThreshold, delete_rate(x))}}

get_domain_patterns(em, an, de) ==
    LET rows == DecisionEmailRows(em, de)
        group(g) == GroupCounts({d \in rows : DomainOf(Sender(d.email_id)) = g})
        results == {g \in {DomainOf(Sender(d.email_id)) : d \in rows} :
                        group(g).total >= DomainMinDecisions}
        delete_rate(g) == Rate(group(g).delete_count, group(g).total)
    IN  {[domain |-> g, action |-> "delete",
          total_decisions |-> group(g).total,
          consistency_rate |-> delete_rate(g),
          rule_type |-> "domain_auto_delete"] :
            g \in {x \in results : QLe(DomainThreshold, delete_rate(x))}}

(* Inputs of the miner: up to MaxGroupDecisions reviewed newsletter mails  *)
(* of sender "a@x", kept, deleted or archived, beside OtherSenderRows      *)
(* deleted promotional mails of sender "b@x" of the same domain.           *)
MaxGroupDecisions == 20

OtherSenderRows == {0, 2}

MinerAnalysis(n, o) ==
    {[email_id |-> i, recommendation |-> "delete",
      confidence_score |-> Pct(90),
      category |-> IF i <= n THEN "newsletter" ELSE "promotional",
      model_name |-> "llm", status |-> "approved"] : i \in 1..(n + o)}

InitMiner ==
    \E k \in 0..MaxGroupDecisions, d \in 0..MaxGroupDecisions,
       a \in 0..MaxGroupDecisions, o \in OtherSenderRows :
        /\ k + d + a <= MaxGroupDecisions
        /\ input = [mail |-> [m \in 1..(k + d + a + o) |->
                                PlainMail(IF m <= k + d + a THEN "a@x"
                                          ELSE "b@x")],
                    inbox |-> {}]
        /\ emails = 1..(k + d + a + o)
        /\ analysis = MinerAnalysis(k + d + a, o)
        /\ decisions = SenderDecisions(k, d, a, o)
        /\ last = [op |-> "init"] /\ Untouched

LearnPatterns ==
    /\ last.op = "init"
    /\ last' = [op |-> "learn_patterns",
                sender_patterns |->
                    get_sender_patterns(emails, analysis, decisions),
                domain_patterns |->
                    get_domain_patterns(emails, analysis, decisions),
                category_patterns |->
                    get_category_patterns(emails, analysis, decisions)]
    /\ UNCHANGED <<emails, analysis, decisions, input, aux>>

NextMiner == LearnPatterns

SpecMiner == InitMiner /\ [][NextMiner]_vars

-----------------------------------------------------------------------------
(* ollama_analyzer.py: analyze_email returns None when the call to the     *)
(* classifier fails, else the parsed and validated analysis.               *)

Replies ==
    {[recommendation |-> "delete", confidence_score |-> Pct(90),
      category |-> "newsletter"],
     [recommendation |-> "keep", confidence_score |-> Pct(60),
      category |-> "personal"]}

Tagged(res, name) ==
    [recommendation |-> res.recommendation,
     confidence_score |-> res.confidence_score,
     category |-> res.category, model_name |-> name]

analyze_email(reply) ==
    IF reply = None THEN None ELSE Tagged(reply, "llm")

(* _parse_analysis_response.  The classifier's text is modelled by what    *)
(* json.loads makes of it: raw.json is FALSE when it is not JSON, else     *)
(* each key is Absent or carries a value; the value of confidence_score is *)
(* a number or something float() raises on.                                *)

Absent == "ABSENT"

AbsentField == [kind |-> "absent"]

Unparsable == [kind |-> "text"]

Number(q) == [kind |-> "number", value |-> q]

valid_recommendations == {"delete", "keep", "archive"}

default_analysis ==
    [recommendation |-> "keep", confidence_score |-> Q(1, 2),
     reasoning |-> "Unable to parse AI response",
     category |-> "unknown", priority |-> "medium"]

setdefault(v, d) == IF v = Absent THEN d ELSE v

parse_analysis_response(raw) ==
    IF ~raw.json THEN default_analysis
    ELSE IF raw.recommendation = Absent THEN default_analysis
    (* float(analysis['confidence_score']) raises: except Exception *)
    ELSE IF raw.confidence_score = Unparsable THEN default_analysis
    ELSE [recommendation |->
              IF raw.recommendation \in valid_recommendations
              THEN raw.recommendation ELSE "keep",
          confidence_score |->
              IF raw.confidence_score = AbsentField THEN Q(1, 2)
              ELSE QMax(QZero, QMin(QOne, raw.confidence_score.value)),
          reasoning |-> setdefault(raw.reasoning, "No reasoning provided"),
          category |-> setdefault(raw.category, "unknown"),
          priority |-> setdefault(raw.priority, "medium")]

RawRecommendations == {Absent, "delete", "keep", "archive", "spam"}

RawConfidences ==
    {AbsentField, Unparsable} \cup
        {Number(Q(n, 100)) : n \in {-50, 0, 90, 100, 150}}

RawResponses ==
    [json : BOOLEAN,
     recommendation : RawRecommendations,
     confidence_score : RawConfidences,
     reasoning : {Absent, "because"},
     category : {Absent, "newsletter"},
     priority : {Absent, "high"}]

InitParse ==
    /\ input \in RawResponses
    /\ emails = {}
    /\ analysis = {}
    /\ decisions = {}
    /\ last = [op |-> "init"] /\ Untouched

ParseResponse ==
    /\ last.op = "init"
    /\ last' = [op |-> "parse", result |-> parse_analysis_response(input)]
    /\ UNCHANGED <<emails, analysis, decisions, input, aux>>

NextParse == ParseResponse

SpecParse == InitParse /\ [][NextParse]_vars

-----------------------------------------------------------------------------
(* scanner.py: EmailScanner._process_email *)

CalibrationNoise == Pct(5)

(* lines 296-308: the calibrated confidence replaces the stated one only   *)
(* when it differs from it by more than 0.05                               *)
ApplyCalibration(res, em, an, de) ==
    LET original == res.confidence_score
        calibrated == calibrate_confidence(original, em, an, de)
    IN  IF QLt(CalibrationNoise, QAbs(QSub(calibrated, original)))
        THEN [res EXCEPT !.confidence_score = calibrated]
        ELSE res

(* the sender's history consulted before the rules *)
AnalysisResult_PatternFirst(m, reply, em, an, de) ==
    LET pattern_result == should_skip_llm(Sender(m), em, an, de)
    IN  IF pattern_result # None THEN Tagged(pattern_result, "pattern_memory")
        ELSE LET rule_result == check_email(EmailData(m))
             IN  IF rule_result # None THEN Tagged(rule_result, "rules_engine")
                 ELSE LET analysis_result == analyze_email(reply)
                      IN  IF analysis_result = None THEN None
                          ELSE ApplyCalibration(analysis_result, em, an, de)

(* the verdict of every tier calibrated *)
AnalysisResult_CalibrateAll(m, reply, em, an, de) ==
    LET rule_result == check_email(EmailData(m))
    IN  IF rule_result # None
        THEN ApplyCalibration(Tagged(rule_result, "rules_engine"), em, an, de)
        ELSE LET pattern_result == should_skip_llm(Sender(m), em, an, de)
             IN  IF pattern_result # None
                 THEN ApplyCalibration(Tagged(pattern_result, "pattern_memory"),
                                       em, an, de)
                 ELSE LET analysis_result == analyze_email(reply)
                      IN  IF analysis_result = None THEN None
                          ELSE ApplyCalibration(analysis_result, em, an, de)

(* lines 266-308: the three tiers; None when the classifier failed *)
AnalysisResult(m, reply, em, an, de) ==
    LET rule_result == check_email(EmailData(m))
    IN  IF rule_result # None THEN Tagged(rule_result, "rules_engine")
        ELSE LET pattern_result == should_skip_llm(Sender(m), em, an, de)
             IN  IF pattern_result # None
                 THEN Tagged(pattern_result, "pattern_memory")
                 ELSE LET analysis_result == analyze_email(reply)
                      IN  IF analysis_result = None THEN None
                          ELSE ApplyCalibration(analysis_result, em, an, de)

(* the existing Analysis row updated without touching its status *)
StoreAnalysis_KeepStatus(an, eid, res) ==
    IF HasRow(an, eid)
    THEN (an \ {FirstRow(an, eid)}) \cup
            {[AnalysisRow(eid, res) EXCEPT !.status = FirstRow(an, eid).status]}
    ELSE an \cup {AnalysisRow(eid, res)}

(* a new Analysis row added whether or not the message has one *)
StoreAnalysis_Append(an, eid, res) ==
    an \cup {AnalysisRow(eid, res)}

(* lines 310-339: update the existing Analysis row or add a new one *)
StoreAnalysis(an, eid, res) ==
    IF HasRow(an, eid)
    THEN (an \ {FirstRow(an, eid)}) \cup {AnalysisRow(eid, res)}
    ELSE an \cup {AnalysisRow(eid, res)}

(* a failed analysis leaves the flushed Email row behind *)
process_email_KeepsEmailRow(op, m, reply) ==
    LET em1 == emails \cup {m}
        res == AnalysisResult(m, reply, em1, analysis, decisions)
    IN  IF res = None
        THEN /\ emails' = em1
             /\ UNCHANGED <<analysis, decisions, input, aux>>
             /\ last' = [op |-> op, msg |-> m, ok |-> FALSE]
        ELSE /\ emails' = em1
             /\ analysis' = StoreAnalysis(analysis, m, res)
             /\ last' = [op |-> op, msg |-> m, ok |-> TRUE]
             /\ UNCHANGED <<decisions, input, aux>>

(* the whole of _process_email: the Email row is added and flushed, the    *)
(* verdict is computed and stored, and the session commits; a failed       *)
(* analysis or a database error rolls everything back and returns False    *)
process_email(op, m, reply) ==
    LET em1 == emails \cup {m}
        res == AnalysisResult(m, reply, em1, analysis, decisions)
    IN  IF res = None
        THEN /\ UNCHANGED <<emails, analysis, decisions, input, aux>>
             /\ last' = [op |-> op, msg |-> m, ok |-> FALSE]
        ELSE LET an1 == StoreAnalysis(analysis, m, res)
             IN  IF UniqueEmailId(an1)
                 THEN /\ emails' = em1
                      /\ analysis' = an1
                      /\ last' = [op |-> op, msg |-> m, ok |-> TRUE]
                      /\ UNCHANGED <<decisions, input, aux>>
                 ELSE /\ UNCHANGED <<emails, analysis, decisions, input, aux>>
                      /\ last' = [op |-> op, msg |-> m, ok |-> FALSE]

(* email_client.search_emails issues SEARCH, not UID SEARCH: it returns     *)
(* message sequence numbers, the positions of the messages in the folder   *)
(* in ascending uid order.  fetch_email fetches by sequence number and     *)
(* returns the message's uid as email_data['email_id'].                    *)
SeqNo(m) == Cardinality({u \in input.inbox : u <= m})

(* scan_new_emails(rescan=False): of the ids the search returns (any part  *)
(* of the inbox, by its date window and limit) those for which             *)
(* query(Email).filter_by(email_id=<id from the search>) finds no row are  *)
(* fetched, and each fetched message is processed once                     *)
ScanNew(m, reply) ==
    /\ SeqNo(m) \notin emails
    /\ process_email("scan", m, reply)

(* scan_new_emails(rescan=True): every uid found is processed again *)
ScanRescan(m, reply) ==
    process_email("rescan", m, reply)

-----------------------------------------------------------------------------
(* rescan_email.py: rules, then the classifier; no pattern tier and no     *)
(* calibration; nothing is written when the analysis fails                 *)

RescanResult(m, reply) ==
    LET rule_result == check_email(EmailData(m))
    IN  IF rule_result # None THEN Tagged(rule_result, "rules_engine")
        ELSE analyze_email(reply)

RescanEmail(m, reply) ==
    /\ m \in emails
    /\ LET res == RescanResult(m, reply)
       IN  IF res = None
           THEN /\ UNCHANGED <<emails, analysis, decisions, input, aux>>
                /\ last' = [op |-> "rescan_email", msg |-> m, ok |-> FALSE]
           ELSE LET an1 == StoreAnalysis(analysis, m, res)
                IN  IF UniqueEmailId(an1)
                    THEN /\ analysis' = an1
                         /\ last' = [op |-> "rescan_email", msg |-> m,
                                     ok |-> TRUE]
                         /\ UNCHANGED <<emails, decisions, input, aux>>
                    ELSE /\ UNCHANGED <<emails, analysis, decisions, input, aux>>
                         /\ last' = [op |-> "rescan_email", msg |-> m,
                                     ok |-> FALSE]

-----------------------------------------------------------------------------
(* app.py: POST /api/emails/{email_id}/decide *)

DecisionRequests == {<<TRUE, "deleted">>, <<FALSE, "kept">>}

(* a new Decision row added whether or not the message has one *)
StoreDecision_Append(de, eid, approved, action) ==
    de \cup {DecisionRow(eid, approved, action)}

(* lines 300-318: update the existing Decision row or add a new one *)
StoreDecision(de, eid, approved, action) ==
    IF HasRow(de, eid)
    THEN (de \ {FirstRow(de, eid)}) \cup {DecisionRow(eid, approved, action)}
    ELSE de \cup {DecisionRow(eid, approved, action)}

(* lines 320-324: analysis.status follows the decision *)
(* the status set to approved whatever the decision *)
SetStatus_AlwaysApproved(an, row, approved) ==
    (an \ {row}) \cup {[row EXCEPT !.status = "approved"]}

SetStatus(an, row, approved) ==
    (an \ {row}) \cup
        {[row EXCEPT !.status = IF approved THEN "approved" ELSE "rejected"]}

(* history: the Decision row of message eid now records an approval of a   *)
(* delete recommendation, or no longer does                                *)
RecordApproval(ad, eid, approved, recommendation) ==
    IF approved /\ recommendation = "delete"
    THEN ad \cup {eid} ELSE ad \ {eid}

MakeDecision(m, approved, action) ==
    /\ m \in emails
    /\ HasRow(analysis, m)
    /\ LET de1 == StoreDecision(decisions, m, approved, action)
           an1 == SetStatus(analysis, FirstRow(analysis, m), approved)
       IN  IF UniqueEmailId(de1)
           THEN /\ decisions' = de1
                /\ analysis' = an1
                /\ approved_delete' =
                       RecordApproval(approved_delete, m, approved,
                                      FirstRow(analysis, m).recommendation)
                /\ last' = [op |-> "decide", msg |-> m, ok |-> TRUE]
                /\ UNCHANGED <<emails, input, deleted_at, sessions>>
           ELSE /\ UNCHANGED <<emails, analysis, decisions, input, aux>>
                /\ last' = [op |-> "decide", msg |-> m, ok |-> FALSE]

(* app.py: the bulk review endpoints.  decide-bulk applies one request to   *)
(* every pending message of a sender or of a category; apply-              *)
(* recommendations approves each pending message's own recommendation.     *)
(* The date-range endpoints run the same loop over the pending messages of *)
(* a date window.                                                          *)

(* query(Email, Analysis).join(Analysis).filter(..., status pending) *)
PendingRows(em, an) ==
    {r \in an : r.email_id \in em /\ r.status = "pending_review"}

PendingOfSender(sender) ==
    {r \in PendingRows(emails, analysis) : Sender(r.email_id) = sender}

PendingOfCategory(category) ==
    {r \in PendingRows(emails, analysis) : r.category = category}

(* the decision the loop body records for one row: the request's, or the   *)
(* row's own recommendation approved; None for "continue"                 *)
BulkChoice(req, row) ==
    IF req.kind = "decide"
    THEN [approved |-> req.approved, action_taken |-> req.action_taken]
    ELSE IF row.recommendation = "keep"
        THEN [approved |-> TRUE, action_taken |-> "kept"]
    ELSE IF row.recommendation = "delete"
        THEN [approved |-> TRUE, action_taken |-> "deleted"]
    ELSE IF row.recommendation = "archive"
        THEN [approved |-> TRUE, action_taken |-> "archived"]
    ELSE None

(* the loop over the selected rows, on the session's view of the tables *)
RECURSIVE BulkLoop(_, _, _)
BulkLoop(rows, req, db) ==
    IF rows = {} THEN db
    ELSE LET row == CHOOSE r \in rows : TRUE
             c == BulkChoice(req, row)
             cur == FirstRow(db.analysis, row.email_id)
         IN  IF c = None THEN BulkLoop(rows \ {row}, req, db)
             ELSE BulkLoop(rows \ {row}, req,
                    [decisions |-> StoreDecision(db.decisions, row.email_id,
                                                 c.approved, c.action_taken),
                     analysis |-> SetStatus(db.analysis, cur, c.approved),
                     approved_delete |->
                         RecordApproval(db.approved_delete, row.email_id,
                                        c.approved, row.recommendation)])

(* one bulk request: 404 when nothing is pending in the group, else the    *)
(* loop and one commit                                                     *)
BulkRequest(op, rows, req) ==
    IF rows = {}
    THEN /\ UNCHANGED <<emails, analysis, decisions, input, aux>>
         /\ last' = [op |-> op, ok |-> FALSE, updated |-> {},
                     existing |-> {}]
    ELSE LET db == BulkLoop(rows, req,
                            [decisions |-> decisions, analysis |-> analysis,
                             approved_delete |-> approved_delete])
         IN  IF UniqueEmailId(db.decisions)
             THEN /\ decisions' = db.decisions
                  /\ analysis' = db.analysis
                  /\ approved_delete' = db.approved_delete
                  /\ last' = [op |-> op, ok |-> TRUE,
                              updated |-> {r.email_id : r \in rows},
                              existing |-> {r.email_id : r \in
                                  {x \in rows : HasRow(decisions, x.email_id)}}]
                  /\ UNCHANGED <<emails, input, deleted_at, sessions>>
             ELSE /\ UNCHANGED <<emails, analysis, decisions, input, aux>>
                  /\ last' = [op |-> op, ok |-> FALSE, updated |-> {},
                     existing |-> {}]

DecideRequest(approved, action) ==
    [kind |-> "decide", approved |-> approved, action_taken |-> action]

ApplyRequest == [kind |-> "apply"]

MakeBulkDecision(sender, approved, action) ==
    BulkRequest("decide_bulk", PendingOfSender(sender),
                DecideRequest(approved, action))

ApplySenderRecommendations(sender) ==
    BulkRequest("apply_recommendations", PendingOfSender(sender), ApplyRequest)

MakeBulkCategoryDecision(category, approved, action) ==
    BulkRequest("decide_bulk", PendingOfCategory(category),
                DecideRequest(approved, action))

ApplyCategoryRecommendations(category) ==
    BulkRequest("apply_recommendations", PendingOfCategory(category),
                ApplyRequest)

-----------------------------------------------------------------------------
(* scanner.py: scan_new_emails as a whole run.  found is the set of        *)
(* messages the search returns, as sequence numbers in ascending order;    *)
(* replies gives the classifier's answer for each message fetched.         *)

(* _process_email on the session's view db of the tables: lines 310-340    *)
(* store the verdict res and commit, or roll back when there is none       *)
StoreResultOn(db, m, res) ==
    IF res = None THEN [db EXCEPT !.ok = FALSE]
    ELSE LET an1 == StoreAnalysis(db.analysis, m, res)
         IN  IF UniqueEmailId(an1)
             THEN [emails |-> db.emails \cup {m}, analysis |-> an1, ok |-> TRUE]
             ELSE [db EXCEPT !.ok = FALSE]

(* (the bound variable res holds the verdict, computed once) *)
ProcessEmailOn(db, m, reply) ==
    CHOOSE out \in {StoreResultOn(db, m, res) :
                      res \in {AnalysisResult(m, reply, db.emails \cup {m},
                                              db.analysis, decisions)}} : TRUE

(* lines 129-147: the ids to fetch, as the messages they denote *)
EmailIdsToFetch(found, rescan) ==
    IF rescan THEN found ELSE {m \in found : SeqNo(m) \notin emails}

(* lines 160-171: one pass of the loop body: the message is processed and  *)
(* counted if _process_email returned True                                 *)
ScanStep(run, m, reply) ==
    LET after == {ProcessEmailOn([emails |-> run.emails,
                                  analysis |-> run.analysis, ok |-> FALSE],
                                 m, reply)}
    IN  CHOOSE next \in {[emails |-> db.emails, analysis |-> db.analysis,
                          processed |-> IF db.ok THEN run.processed \cup {m}
                                        ELSE run.processed] : db \in after} :
            TRUE

(* the loop over the fetched messages in search order.  (The bound         *)
(* variable cur holds the value of run, computed once.)                    *)
RECURSIVE ScanLoop(_, _, _)
ScanLoop(todo, replies, run) ==
    IF todo = {} THEN run
    ELSE LET m == CHOOSE x \in todo : \A y \in todo : x <= y
         IN  CHOOSE end \in {ScanLoop(todo \ {m}, replies,
                                      ScanStep(cur, m, replies[m])) :
                                cur \in {run}} : TRUE

ScanRun(found, replies, rescan) ==
    LET fetch == EmailIdsToFetch(found, rescan)
    IN  \E run \in {ScanLoop(fetch, replies,
                              [emails |-> emails, analysis |-> analysis,
                               processed |-> {}])} :
          /\ emails' = run.emails
          /\ analysis' = run.analysis
          /\ last' = [op |-> IF rescan THEN "rescan_run" ELSE "scan_run",
                      found |-> found, fetched |-> fetch,
                      processed |-> run.processed,
                      count |-> Cardinality(run.processed)]
          /\ UNCHANGED <<decisions, input, aux>>

-----------------------------------------------------------------------------
(* cleanup.py *)

(* email_client.delete_email: "moved" is UID COPY to the Trash OK and the  *)
(* message expunged from the folder (True); "copied" is UID COPY OK while  *)
(* the unchecked STORE/expunge left the message in the folder (True);      *)
(* "failed" is UID COPY not OK or an exception (False).                    *)
DeleteOutcomes == {"moved", "copied", "failed"}

delete_email(outcome) == outcome # "failed"

(* get_approved_deletions: Decision.approved, Analysis.recommendation ==   *)
(* 'delete', Email.deleted_at IS NULL                                      *)
get_approved_deletions ==
    {p[1].email_id : p \in {q \in JoinRows(emails, analysis, decisions) :
                                /\ q[1].approved = TRUE
                                /\ q[2].recommendation = "delete"
                                /\ q[1].email_id \notin deleted_at}}

(* delete_approved_emails: outcome gives the result of the server delete   *)
(* of each approved message                                                *)
DeleteApprovedEmails(dry_run, outcome) ==
    LET approved == get_approved_deletions
        done == {m \in approved : delete_email(outcome[m])}
    IN  IF approved = {} \/ dry_run
        THEN /\ UNCHANGED <<emails, analysis, decisions, input, aux>>
             /\ last' = [op |-> "cleanup", dry_run |-> dry_run,
                         approved |-> approved, deleted |-> {},
                         count |-> Cardinality(approved)]
        ELSE /\ deleted_at' = deleted_at \cup done
             /\ input' = [input EXCEPT !.inbox =
                              @ \ {m \in approved : outcome[m] = "moved"}]
             /\ last' = [op |-> "cleanup", dry_run |-> dry_run,
                         approved |-> approved, deleted |-> done,
                         count |-> Cardinality(done)]
             /\ UNCHANGED <<emails, analysis, decisions, approved_delete,
                            sessions>>

(* auto_delete_high_confidence: delete recommendations of at least         *)
(* min_confidence without a Decision, not marked deleted.  After a         *)
(* successful server delete the constructor call Decision(action=...,      *)
(* approved_recommendation=...) names columns the model does not have and  *)
(* raises; the handler rolls back, so the database keeps no trace of the   *)
(* server delete.                                                          *)
AutoDeleteCandidates(min_confidence) ==
    {r.email_id : r \in {a \in analysis :
                            /\ a.email_id \in emails
                            /\ a.recommendation = "delete"
                            /\ QLe(min_confidence, a.confidence_score)
                            /\ ~HasRow(decisions, a.email_id)
                            /\ a.email_id \notin deleted_at}}

AutoDeleteHighConfidence(min_confidence, outcome) ==
    LET results == AutoDeleteCandidates(min_confidence)
    IN  /\ results # {}
        /\ input' = [input EXCEPT !.inbox =
                         @ \ {m \in results : outcome[m] = "moved"}]
        /\ last' = [op |-> "auto_delete", deleted |-> {}, count |-> 0]
        /\ UNCHANGED <<emails, analysis, decisions, aux>>

-----------------------------------------------------------------------------
(* sync_status.py *)

(* the rows of the removed messages left in the table *)
WithoutRows_KeepsRows(t, removed) == t

(* the rows of a table that belong to none of the removed messages *)
WithoutRows(t, removed) == {r \in t : r.email_id \notin removed}

(* sync_deleted_emails(mark_only, remove_from_db) *)
SyncDeletedEmails(mark_only, remove_from_db) ==
    LET server_uids == input.inbox
        missing == {m \in emails \ deleted_at : m \notin server_uids}
        removed == IF remove_from_db THEN missing ELSE {}
        marked == IF ~remove_from_db /\ mark_only THEN missing ELSE {}
        (* direction 2 queries the rows marked deleted after direction 1 *)
        restored == {m \in (deleted_at \cup marked) \ removed :
                        m \in server_uids}
        reset(r) == IF r.email_id \in restored
                    THEN [r EXCEPT !.status = "pending_review"] ELSE r
    IN  IF server_uids = {}
        THEN /\ UNCHANGED <<emails, analysis, decisions, input, aux>>
             /\ last' = [op |-> "sync", ok |-> FALSE, removed |-> {},
                         restored |-> {}]
        ELSE /\ emails' = emails \ removed
             /\ decisions' = WithoutRows(decisions, removed)
             /\ analysis' = {reset(r) : r \in WithoutRows(analysis, removed)}
             /\ deleted_at' = ((deleted_at \cup marked) \ removed) \ restored
             /\ approved_delete' = approved_delete \ removed
             /\ last' = [op |-> "sync", ok |-> TRUE, removed |-> removed,
                         restored |-> restored]
             /\ UNCHANGED <<input, sessions>>

(* cleanup_old_deleted_emails(days_old): old is the set of messages whose  *)
(* deleted_at lies before the cutoff                                       *)
CleanupOldDeletedEmails(old) ==
    /\ old \subseteq deleted_at
    /\ emails' = emails \ old
    /\ decisions' = WithoutRows(decisions, old)
    /\ analysis' = WithoutRows(analysis, old)
    /\ deleted_at' = deleted_at \ old
    /\ approved_delete' = approved_delete \ old
    /\ last' = [op |-> "cleanup_old", ok |-> TRUE, removed |-> old,
                restored |-> {}]
    /\ UNCHANGED <<input, sessions>>

-----------------------------------------------------------------------------
(* A new installation: an empty database and an inbox of NMsg messages.   *)
(* Messages 1 and 2 of sender "a" match no rule, message 3 of sender "a"   *)
(* and any further message (sender "b") are old promotional mail.          *)

NMsg == 3

Init ==
    /\ input = [mail |-> [m \in 1..NMsg |->
                            IF m <= 2 THEN PlainMail("a")
                            ELSE IF m = 3 THEN PromoMail("a")
                            ELSE PromoMail("b")],
                inbox |-> 1..NMsg]
    /\ emails = {}
    /\ analysis = {}
    /\ decisions = {}
    /\ last = [op |-> "init"] /\ Untouched

Next ==
    \/ \E m \in input.inbox, reply \in Replies \cup {None} : ScanNew(m, reply)
    \/ \E m \in input.inbox, reply \in Replies \cup {None} : ScanRescan(m, reply)
    \/ \E m \in input.inbox, reply \in Replies \cup {None} : RescanEmail(m, reply)
    \/ \E m \in input.inbox, d \in DecisionRequests : MakeDecision(m, d[1], d[2])

Spec == Init /\ [][Next]_vars

-----------------------------------------------------------------------------
(* An installation with a review history: the database holds HistRows     *)
(* reviewed model verdicts of earlier mail of sender "b" (no longer in the *)
(* inbox) with stated confidence 0.90, the first k of them approved and    *)
(* deleted, the others rejected and kept.  The inbox holds NLive new       *)
(* messages of sender "b": message 1 matches no rule, the others are old   *)
(* promotional mail.                                                       *)

NLive == 2

HistRows == 5

History == (NLive + 1)..(NLive + HistRows)

HistCorrect == {1, HistRows}

HistAnalysis(k) ==
    {[email_id |-> NLive + i, recommendation |-> "delete",
      confidence_score |-> Pct(90), category |-> "newsletter",
      model_name |-> "llm",
      status |-> IF i <= k THEN "approved" ELSE "rejected"] : i \in 1..HistRows}

HistDecisions(k) ==
    {DecisionRow(NLive + i, i <= k, IF i <= k THEN "deleted" ELSE "kept") :
        i \in 1..HistRows}

InitHist ==
    /\ input = [mail |-> [m \in 1..(NLive + HistRows) |->
                            IF m = 1 \/ m > NLive THEN PlainMail("b")
                            ELSE PromoMail("b")],
                inbox |-> 1..NLive]
    /\ last = [op |-> "init"] /\ Untouched
    /\ \E k \in HistCorrect :
          /\ emails = History
          /\ analysis = HistAnalysis(k)
          /\ decisions = HistDecisions(k)

SpecHist == InitHist /\ [][Next]_vars

-----------------------------------------------------------------------------
(* The installation in operation: scan runs, the single-message rescan,    *)
(* every review endpoint, the cleanup and sync scripts.  The folder holds  *)
(* NOps messages of sender "a" with consecutive uids from 1 or, when       *)
(* earlier mail was expunged before the first scan, from 2: the first      *)
(* matches no rule, the others are old promotional mail.                   *)

NOps == 2

FirstUids == {1, 2}

Senders == {"a"}

Categories == {"newsletter", "personal", "promotional"}

MinConfidences == {Pct(90), Pct(95)}

InitOps ==
    /\ \E first \in FirstUids :
          input = [mail |-> [m \in 1..(NOps + 1) |->
                               IF m = first THEN PlainMail("a")
                               ELSE PromoMail("a")],
                   inbox |-> first..(first + NOps - 1)]
    /\ emails = {}
    /\ analysis = {}
    /\ decisions = {}
    /\ last = [op |-> "init"] /\ Untouched

NextOps ==
    \/ \E found \in SUBSET input.inbox \ {{}} :
         \E replies \in [found -> Replies \cup {None}] :
            ScanRun(found, replies, FALSE)
    \/ \E found \in SUBSET input.inbox \ {{}} :
         \E replies \in [found -> Replies \cup {None}] :
            ScanRun(found, replies, TRUE)
    \/ \E m \in emails, reply \in Replies \cup {None} : RescanEmail(m, reply)
    \/ \E m \in emails, d \in DecisionRequests : MakeDecision(m, d[1], d[2])
    \/ \E sender \in Senders, d \in DecisionRequests :
            MakeBulkDecision(sender, d[1], d[2])
    \/ \E sender \in Senders : ApplySenderRecommendations(sender)
    \/ \E category \in Categories, d \in DecisionRequests :
            MakeBulkCategoryDecision(category, d[1], d[2])
    \/ \E category \in Categories : ApplyCategoryRecommendations(category)
    \/ \E dry_run \in BOOLEAN :
         \E outcome \in [get_approved_deletions -> DeleteOutcomes] :
            DeleteApprovedEmails(dry_run, outcome)
    \/ \E min_confidence \in MinConfidences :
         \E outcome \in [AutoDeleteCandidates(min_confidence) -> DeleteOutcomes] :
            AutoDeleteHighConfidence(min_confidence, outcome)
    \/ \E mark_only \in BOOLEAN, remove_from_db \in BOOLEAN :
            SyncDeletedEmails(mark_only, remove_from_db)
    \/ \E old \in SUBSET deleted_at \ {{}} : CleanupOldDeletedEmails(old)

SpecOps == InitOps /\ [][NextOps]_vars

-----------------------------------------------------------------------------
(* Scanner processes running at the same time, each with its own database  *)
(* session on the same SQLite file (settings.py: sqlite:///data/...).      *)
(* _process_email is taken in its four database steps.  A session reads    *)
(* the committed tables and its own pending rows; the flush of a new Email *)
(* row takes the database's write lock, which the session keeps until it   *)
(* commits or rolls back.  A write attempted while another session holds   *)
(* the lock waits (the step is not taken yet) or gives up with "database   *)
(* is locked"; a row that breaks a unique index raises IntegrityError.     *)
(* Either exception is caught at line 345: rollback, return False.         *)

NWorkers == 2

Workers == 1..NWorkers

IdleSession == [pc |-> "idle"]

(* the sessions with an uncommitted Email row, i.e. holding the write lock *)
LockHolders == {w \in DOMAIN sessions : sessions[w].pc \in {"flushed", "analysed"}
                                        /\ ~sessions[w].exists}

LockedByOther(w) == LockHolders \ {w} # {}

(* the invocation of worker w ends: rollback and return False *)
Fail(w, error) ==
    /\ sessions' = [sessions EXCEPT ![w] = IdleSession]
    /\ last' = [op |-> "process", worker |-> w, msg |-> sessions[w].msg,
                ok |-> FALSE, error |-> error]
    /\ UNCHANGED <<emails, analysis, decisions, input, deleted_at,
                   approved_delete>>

(* line 246: query(Email).filter_by(email_id=...).first() *)
QueryEmail(w, m) ==
    /\ sessions[w].pc = "idle"
    /\ sessions' = [sessions EXCEPT ![w] =
                       [pc |-> "queried", msg |-> m, exists |-> m \in emails]]
    /\ UNCHANGED <<emails, analysis, decisions, input, last, deleted_at,
                   approved_delete>>

(* the flush that lets a conflicting Email row through *)
FlushEmail_NoUniqueIndex(w) ==
    /\ sessions[w].pc = "queried"
    /\ IF sessions[w].exists
       THEN /\ sessions' = [sessions EXCEPT ![w].pc = "flushed"]
            /\ UNCHANGED <<emails, analysis, decisions, input, last,
                           deleted_at, approved_delete>>
       ELSE IF LockedByOther(w) THEN Fail(w, "locked")
       ELSE /\ sessions' = [sessions EXCEPT ![w].pc = "flushed"]
            /\ UNCHANGED <<emails, analysis, decisions, input, last,
                           deleted_at, approved_delete>>

(* lines 248-264: nothing to write when the row exists, else add and flush *)
FlushEmail(w) ==
    /\ sessions[w].pc = "queried"
    /\ IF sessions[w].exists
       THEN /\ sessions' = [sessions EXCEPT ![w].pc = "flushed"]
            /\ UNCHANGED <<emails, analysis, decisions, input, last,
                           deleted_at, approved_delete>>
       ELSE IF LockedByOther(w) THEN Fail(w, "locked")
       ELSE IF sessions[w].msg \in emails THEN Fail(w, "integrity")
       ELSE /\ sessions' = [sessions EXCEPT ![w].pc = "flushed"]
            /\ UNCHANGED <<emails, analysis, decisions, input, last,
                           deleted_at, approved_delete>>

(* lines 266-308: the three tiers on the session's view of the tables *)
Analyse(w, reply) ==
    /\ sessions[w].pc = "flushed"
    /\ \E res \in {AnalysisResult(sessions[w].msg, reply,
                                   emails \cup {sessions[w].msg},
                                   analysis, decisions)} :
          IF res = None THEN Fail(w, "analysis")
          ELSE /\ sessions' = [sessions EXCEPT ![w] =
                                  [pc |-> "analysed", msg |-> sessions[w].msg,
                                   exists |-> sessions[w].exists,
                                   res |-> res]]
               /\ UNCHANGED <<emails, analysis, decisions, input, last,
                              deleted_at, approved_delete>>

(* lines 310-340: update or add the Analysis row, commit *)
StoreAndCommit(w) ==
    /\ sessions[w].pc = "analysed"
    /\ LET m == sessions[w].msg
           an1 == StoreAnalysis(analysis, m, sessions[w].res)
       IN  IF LockedByOther(w) THEN Fail(w, "locked")
           ELSE IF ~UniqueEmailId(an1) THEN Fail(w, "integrity")
           ELSE /\ emails' = emails \cup {m}
                /\ analysis' = an1
                /\ sessions' = [sessions EXCEPT ![w] = IdleSession]
                /\ last' = [op |-> "process", worker |-> w, msg |-> m,
                            ok |-> TRUE, error |-> "none"]
                /\ UNCHANGED <<decisions, input, deleted_at, approved_delete>>

InitConc ==
    /\ input = [mail |-> [m \in 1..(NOps + 1) |->
                            IF m = 1 THEN PlainMail("a") ELSE PromoMail("a")],
                inbox |-> 1..NOps]
    /\ emails = {}
    /\ analysis = {}
    /\ decisions = {}
    /\ last = [op |-> "init"]
    /\ deleted_at = {}
    /\ approved_delete = {}
    /\ sessions = [w \in Workers |-> IdleSession]

NextConc ==
    \/ \E w \in Workers, m \in input.inbox : QueryEmail(w, m)
    \/ \E w \in Workers : FlushEmail(w)
    \/ \E w \in Workers, reply \in Replies \cup {None} : Analyse(w, reply)
    \/ \E w \in Workers : StoreAndCommit(w)

SpecConc == InitConc /\ [][NextConc]_vars

-----------------------------------------------------------------------------
(* Properties of the calibrator, stated over the reviewed rows themselves  *)

(* the five buckets [0,.5) [.5,.7) [.7,.85) [.85,.95) [.95,1] *)
BucketIndex(c) ==
    IF QLt(c, Pct(50)) THEN 1
    ELSE IF QLt(c, Pct(70)) THEN 2
    ELSE IF QLt(c, Pct(85)) THEN 3
    ELSE IF QLt(c, Pct(95)) THEN 4
    ELSE 5

StatedOf(d) == FirstRow(analysis, d.email_id).confidence_score

(* the human-reviewed samples in the bucket that contains c *)
Samples(c) ==
    {d \in decisions :
        /\ HasRow(analysis, d.email_id)
        /\ BucketIndex(StatedOf(d)) = BucketIndex(c)}

RECURSIVE SumStated(_)
SumStated(S) ==
    IF S = {} THEN QZero
    ELSE LET d == CHOOSE x \in S : TRUE
         IN  QAdd(StatedOf(d), SumStated(S \ {d}))

AvgStated(c) == QDivInt(SumStated(Samples(c)), Cardinality(Samples(c)))

Accuracy(c) ==
    Q(Cardinality({d \in Samples(c) : d.approved}), Cardinality(Samples(c)))

Clamp01(x) == IF QLt(x, QZero) THEN QZero ELSE IF QLt(QOne, x) THEN QOne ELSE x

Damped(c) == Clamp01(QSub(c, QHalf(QSub(AvgStated(c), Accuracy(c)))))

(* C6: with at least 5 samples in the bucket of the stated confidence,     *)
(* calibrate returns clamp(stated - 0.5 * (avg stated confidence of the    *)
(* bucket - observed accuracy of the bucket), 0, 1), a value in [0,1].     *)
C6_DampedCorrection ==
    (last.op = "calibrate" /\ Cardinality(Samples(input.stated)) >= 5) =>
        /\ last.result = Damped(input.stated)
        /\ QLe(QZero, last.result) /\ QLe(last.result, QOne)

(* C7: with fewer than 5 human-reviewed samples in the bucket of the       *)
(* stated confidence (0..4) calibrate returns the stated confidence        *)
(* unchanged whatever the bucket's error; with exactly 5 samples the       *)
(* damped correction by the bucket's error is applied.                     *)
C7_InsufficientSampleGuard ==
    last.op = "calibrate" =>
        LET n == Cardinality(Samples(input.stated))
            err == get_bucket_stats(emails, analysis, decisions)
                       [FindBucket(input.stated)].calibration_error
        IN  /\ n < 5 => last.result = input.stated
            /\ n = 5 => last.result = Clamp01(QSub(input.stated, QHalf(err)))

(* 4 samples with a bucket error: returned unchanged *)
C7_WitnessFour ==
    /\ last.op = "calibrate"
    /\ Cardinality(Samples(input.stated)) = 4
    /\ AvgStated(input.stated) # Accuracy(input.stated)
    /\ last.result = input.stated

(* 5 samples: corrected *)
C7_WitnessFive ==
    /\ last.op = "calibrate"
    /\ Cardinality(Samples(input.stated)) = 5
    /\ last.result # input.stated

(* C8: if the average stated confidence of the bucket equals its observed  *)
(* accuracy, calibrate returns the stated confidence unchanged.            *)
C8_NoErrorNoChange ==
    (/\ last.op = "calibrate"
     /\ Samples(input.stated) # {}
     /\ AvgStated(input.stated) = Accuracy(input.stated))
        => last.result = input.stated

-----------------------------------------------------------------------------
(* Properties of the rules engine *)

(* C4: rule 1 before rule 2: a VIP sender's message with an event keyword  *)
(* gets delete (old_event, 0.93) when its age in whole days exceeds        *)
(* old_event_days, and keep (vip_sender, 0.99) otherwise.                  *)
C4_OldEventBeforeVip ==
    (last.op = "check_email" /\ input.vip /\ input.event) =>
        IF input.hasDate /\ input.age > 60
        THEN /\ last.result.recommendation = "delete"
             /\ last.result.rule_matched = "old_event"
             /\ last.result.confidence_score = Q(93, 100)
        ELSE /\ last.result.recommendation = "keep"
             /\ last.result.rule_matched = "vip_sender"
             /\ last.result.confidence_score = Q(99, 100)

C4_Witness ==
    /\ last.op = "check_email"
    /\ input.vip /\ input.event /\ input.hasDate
    /\ input.age = old_event_days + 1
    /\ last.result.rule_matched = "old_event"

(* C16: the age-gated delete rules fire only on an age in whole days       *)
(* strictly greater than their threshold: old_event needs age >            *)
(* old_event_days, old_job_offer age > old_job_days, old_newsletter age >  *)
(* old_newsletter_days, old_promotional age > old_promotional_days.        *)
C16_AgeStrictlyGreater ==
    (last.op = "check_email" /\ last.result # None) =>
        LET rule == last.result.rule_matched
        IN  /\ rule = "old_event" => input.age > 60
            /\ rule = "old_job_offer" => input.age > 180
            /\ rule = "old_newsletter" => input.age > 7
            /\ rule = "old_promotional" => input.age > 90

-----------------------------------------------------------------------------
(* Properties of the sender memory *)

CountOf(sender, action) ==
    Cardinality({d \in decisions :
                    Sender(d.email_id) = sender /\ d.action_taken = action})

TotalOf(sender) ==
    Cardinality({d \in decisions : Sender(d.email_id) = sender})

(* C17: should_skip_llm returns a verdict iff the sender has at least 3    *)
(* decisions (archived ones included) and kept/total >= 0.9 or             *)
(* deleted/total >= 0.9; it is keep when the keep rate qualifies, else     *)
(* delete; its confidence is the winning rate and its reasoning carries    *)
(* the winning count and the total.                                        *)
C17_SkipIffThreeAndNinetyPercent ==
    last.op = "should_skip_llm" =>
        LET total == TotalOf("a")
            kept == CountOf("a", "kept")
            deleted == CountOf("a", "deleted")
            keeps == total >= 3 /\ 10 * kept >= 9 * total
            deletes == total >= 3 /\ 10 * deleted >= 9 * total
        IN  IF keeps
            THEN /\ last.result # None
                 /\ last.result.recommendation = "keep"
                 /\ last.result.confidence_score = Q(kept, total)
                 /\ last.result.reasoning = <<"kept", kept, total>>
            ELSE IF deletes
            THEN /\ last.result # None
                 /\ last.result.recommendation = "delete"
                 /\ last.result.confidence_score = Q(deleted, total)
                 /\ last.result.reasoning = <<"deleted", deleted, total>>
            ELSE last.result = None

(* 9 kept and 1 archived of 10: keep with confidence 0.9 *)
C17_Witness ==
    /\ last.op = "should_skip_llm"
    /\ CountOf("a", "archived") = 1
    /\ TotalOf("a") = 10
    /\ last.result # None
    /\ last.result.recommendation = "keep"
    /\ last.result.confidence_score = Q(9, 10)

(* when message m was decided *)
DecidedAt(m) == (CHOOSE d \in decisions : d.email_id = m).decided_at

(* the decided mails of sender "a" *)
OwnExamples == {m \in emails : Sender(m) = "a"}

(* the decided "newsletter" mails of other senders *)
BackfillExamples ==
    {m \in emails :
        /\ Sender(m) # "a"
        /\ \E r \in analysis : r.email_id = m /\ r.category = "newsletter"}

SmallerOf(x, y) == IF x < y THEN x ELSE y

(* seq[from..to] holds the to-from+1 most recently decided members of S,   *)
(* most recent first                                                       *)
MostRecentFirst(seq, from, to, S) ==
    /\ \A i \in from..to : seq[i] \in S
    /\ \A i, j \in from..to : i < j => DecidedAt(seq[i]) > DecidedAt(seq[j])
    /\ \A m \in S :
          (\A i \in from..to : seq[i] # m) =>
              \A i \in from..to : DecidedAt(m) < DecidedAt(seq[i])

(* C20: get_similar_decisions returns at most limit examples: the sender's *)
(* own decided mails, most recently decided first, up to limit; if these   *)
(* are fewer than limit, then same-category mails of other senders, most   *)
(* recent first, until limit is reached or none is left; no example twice. *)
C20_SameSenderThenBackfill ==
    last.op = "get_similar_decisions" =>
        LET res == last.result
            nOwn == SmallerOf(input.limit, Cardinality(OwnExamples))
            nBack == SmallerOf(input.limit - nOwn,
                               Cardinality(BackfillExamples))
        IN  /\ Len(res) = nOwn + nBack
            /\ Len(res) <= input.limit
            /\ \A i, j \in 1..Len(res) : i # j => res[i] # res[j]
            /\ MostRecentFirst(res, 1, nOwn, OwnExamples)
            /\ MostRecentFirst(res, nOwn + 1, nOwn + nBack, BackfillExamples)

(* one own example, then two of three backfill candidates *)
C20_Witness ==
    /\ last.op = "get_similar_decisions"
    /\ input.limit = 3
    /\ Cardinality(OwnExamples) = 1
    /\ Cardinality(BackfillExamples) = 3
    /\ Len(last.result) = 3
    /\ last.result[1] \in OwnExamples

-----------------------------------------------------------------------------
(* Properties of the pattern miner *)

(* the decisions on mail of the senders at domain "x" *)
DomainXDecisions == {d \in decisions : Sender(d.email_id) \in {"a@x", "b@x"}}

CategoryDecisions(c) ==
    {d \in decisions :
        \E r \in analysis : r.email_id = d.email_id /\ r.category = c}

SenderGroup(s) == {d \in decisions : Sender(d.email_id) = s}

NumberOf(D, action) == Cardinality({d \in D : d.action_taken = action})

(* C18: every pattern the domain scan returns has action delete, also for  *)
(* a domain whose 8 or more decisions are all "kept".                      *)
C18_NoKeepDomainRule ==
    last.op = "learn_patterns" =>
        /\ \A p \in last.domain_patterns : p.action = "delete"
        /\ (NumberOf(DomainXDecisions, "kept")
                = Cardinality(DomainXDecisions)) =>
              last.domain_patterns = {}

(* 20 decisions of the domain, all kept: nothing is proposed for it *)
C18_Witness ==
    /\ last.op = "learn_patterns"
    /\ Cardinality(DomainXDecisions) = 20
    /\ NumberOf(DomainXDecisions, "kept") = 20
    /\ last.domain_patterns = {}

-----------------------------------------------------------------------------
(* Properties of the pipeline *)

PipelineOps == {"scan", "rescan"}

RowsOf(t, m) == {r \in t : r.email_id = m}

RuleMatches(m) == check_email(EmailData(m)) # None

(* the reviewed decisions on mail of a sender, read from the tables *)
DecisionsOf(sender, an, de) ==
    {d \in de : Sender(d.email_id) = sender /\ HasRow(an, d.email_id)}

AllDeleted(D) == \A d \in D : d.action_taken = "deleted"

(* C1: at most one Analysis row exists per message; a scan, rescan or      *)
(* single-message rescan that produces a verdict for a message that has a  *)
(* row succeeds, leaves the number of rows and every other row unchanged,  *)
(* and the one row of the message holds the new verdict.                   *)
C1_OneVerdictPerMessage ==
    /\ [](\A m \in emails : Cardinality(RowsOf(analysis, m)) <= 1)
    /\ [][\A m \in input.inbox, reply \in Replies :
            (/\ last'.op \in {"rescan", "rescan_email"} /\ last'.msg = m
             /\ HasRow(analysis, m)
             /\ (ScanRescan(m, reply) \/ RescanEmail(m, reply))) =>
                /\ last'.ok
                /\ Cardinality(analysis') = Cardinality(analysis)
                /\ Cardinality(RowsOf(analysis', m)) = 1
                /\ \A k \in emails \ {m} :
                      RowsOf(analysis', k) = RowsOf(analysis, k)
                /\ \A r \in RowsOf(analysis', m) :
                      /\ r.status = "pending_review"
                      /\ \/ RuleMatches(m)
                         \/ r.model_name = "pattern_memory"
                         \/ r.recommendation = reply.recommendation]_vars

(* a reviewed verdict has been overwritten by a single-message rescan *)
C1_Witness ==
    /\ last.op = "rescan_email" /\ last.ok
    /\ HasRow(decisions, last.msg)
    /\ Cardinality(RowsOf(analysis, last.msg)) = 1
    /\ \A r \in RowsOf(analysis, last.msg) :
          r.status = "pending_review" /\ r.recommendation = "keep"

(* C2: the verdict _process_email stores is rule-sourced whenever a rule   *)
(* matches, pattern-sourced when no rule matches and the sender has a      *)
(* pattern, model-sourced when neither matches; when a rule or the pattern *)
(* matched the classifier is not consulted, so its failure changes nothing.*)
C2_TierOrder ==
    [][\A m \in input.inbox, reply \in Replies \cup {None} :
        (/\ last'.op \in PipelineOps /\ last'.msg = m
         /\ (ScanNew(m, reply) \/ ScanRescan(m, reply))) =>
            LET rule == RuleMatches(m)
                pattern == should_skip_llm(Sender(m), emails \cup {m},
                                           analysis, decisions) # None
            IN  /\ (rule \/ pattern) => last'.ok
                /\ last'.ok =>
                     \A r \in RowsOf(analysis', m) :
                        r.model_name = IF rule THEN "rules_engine"
                                       ELSE IF pattern THEN "pattern_memory"
                                       ELSE "llm"
                /\ last'.ok => HasRow(analysis', m)]_vars

(* a rule verdict stored for a message whose sender has a pattern *)
C2_Witness ==
    /\ last.op \in PipelineOps /\ last.ok
    /\ RuleMatches(last.msg)
    /\ should_skip_llm(Sender(last.msg), emails, analysis, decisions) # None
    /\ \A r \in RowsOf(analysis, last.msg) : r.model_name = "rules_engine"

(* C3: a message handed to the pipeline ends with exactly one verdict, and *)
(* when the classifier failed that verdict is the model-tier default: keep *)
(* with confidence 0.5.                                                    *)
C3_DefaultVerdictOnFailure ==
    last.op \in PipelineOps =>
        /\ Cardinality(RowsOf(analysis, last.msg)) = 1
        /\ ~last.ok =>
              \A r \in RowsOf(analysis, last.msg) :
                 /\ r.recommendation = "keep"
                 /\ r.confidence_score = Q(1, 2)
                 /\ r.model_name = "llm"

(* C5: while every decision on a sender's mail is "deleted", should_skip_llm *)
(* returns None after 1 or 2 decisions and a delete verdict from the 3rd   *)
(* on; the sender's next message that matches no rule is then classified   *)
(* by the model (1 or 2 decisions) or pattern-sourced (3 or more).         *)
C5_PatternNeedsThreeDecisions ==
    /\ [](\A s \in {"a", "b"} :
            LET D == DecisionsOf(s, analysis, decisions)
                skip == should_skip_llm(s, emails, analysis, decisions)
            IN  (D # {} /\ AllDeleted(D)) =>
                   IF Cardinality(D) < 3 THEN skip = None
                   ELSE /\ skip # None
                        /\ skip.recommendation = "delete")
    /\ [][\A m \in input.inbox, reply \in Replies :
            LET D == DecisionsOf(Sender(m), analysis, decisions)
            IN  (/\ last'.op \in PipelineOps /\ last'.msg = m
                 /\ ~RuleMatches(m) /\ D # {} /\ AllDeleted(D)
                 /\ (ScanNew(m, reply) \/ ScanRescan(m, reply))) =>
                    \A r \in RowsOf(analysis', m) :
                       IF Cardinality(D) < 3
                       THEN r.model_name = "llm"
                       ELSE /\ r.model_name = "pattern_memory"
                            /\ r.recommendation = "delete"]_vars

(* after the 3rd "deleted" decision the sender's message is pattern-sourced *)
C5_Witness ==
    /\ last.op \in PipelineOps /\ last.ok
    /\ Cardinality(DecisionsOf(Sender(last.msg), analysis, decisions)) = 3
    /\ AllDeleted(DecisionsOf(Sender(last.msg), analysis, decisions))
    /\ \A r \in RowsOf(analysis, last.msg) :
          r.model_name = "pattern_memory" /\ r.recommendation = "delete"

(* C9: a decision on a message whose verdict is rule- or pattern-sourced   *)
(* changes no bucket's total, correct count or average stated confidence.  *)
C9_OnlyModelVerdictsCounted ==
    [][\A m \in input.inbox, d \in DecisionRequests :
        (/\ last'.op = "decide" /\ last'.msg = m
         /\ \A r \in RowsOf(analysis, m) :
               r.model_name \in {"rules_engine", "pattern_memory"}
         /\ MakeDecision(m, d[1], d[2])) =>
            \A name \in BucketNames :
               LET old == get_bucket_stats(emails, analysis, decisions)[name]
                   new == get_bucket_stats(emails', analysis', decisions')[name]
               IN  /\ new.total_decisions = old.total_decisions
                   /\ new.correct_decisions = old.correct_decisions
                   /\ new.avg_stated_confidence = old.avg_stated_confidence]_vars

C11_NoCalibrationDataKeepsConfidence ==
    [][\A m \in input.inbox, reply \in Replies :
        (/\ last'.op \in PipelineOps /\ last'.msg = m
         /\ ~RuleMatches(m)
         /\ decisions = {}
         /\ (ScanNew(m, reply) \/ ScanRescan(m, reply))) =>
            /\ last'.ok
            /\ Cardinality(RowsOf(analysis', m)) = 1
            /\ \A r \in RowsOf(analysis', m) :
                  /\ r.recommendation = reply.recommendation
                  /\ r.confidence_score = reply.confidence_score
                  /\ r.category = reply.category
                  /\ r.model_name = "llm"]_vars

(* a first scan stored the classifier's 0.90 while no decision exists *)
C11_Witness ==
    /\ last.op = "scan" /\ last.ok
    /\ decisions = {}
    /\ \E r \in RowsOf(analysis, last.msg) :
          /\ r.model_name = "llm"
          /\ r.recommendation = "delete"
          /\ r.confidence_score = Q(9, 10)

(* C12: a rescan or single-message rescan that stores a verdict for a      *)
(* message whose verdict is approved or rejected leaves that verdict       *)
(* pending_review, whatever tier produced it and whatever it recommends.   *)
C12_RerunResetsReviewStatus ==
    [][\A m \in input.inbox :
        (/\ last'.op \in {"rescan", "rescan_email"} /\ last'.msg = m
         /\ last'.ok
         /\ \E r \in RowsOf(analysis, m) :
               r.status \in {"approved", "rejected"}) =>
            /\ HasRow(analysis', m)
            /\ \A r \in RowsOf(analysis', m) : r.status = "pending_review"]_vars

(* a reviewed rule verdict rescanned: same recommendation, pending again *)
C12_Witness ==
    /\ last.op = "rescan" /\ last.ok
    /\ HasRow(decisions, last.msg)
    /\ \E r \in RowsOf(analysis, last.msg) :
          /\ r.model_name = "rules_engine"
          /\ r.status = "pending_review"

(* C13: a run of _process_email on a message that fails leaves emails,     *)
(* analysis and decisions exactly as they were; one that succeeds stores   *)
(* the Email row and writes exactly the one Analysis row of the message.   *)
C13_AllOrNothing ==
    [][\A m \in input.inbox :
        (last'.op \in PipelineOps /\ last'.msg = m) =>
            /\ decisions' = decisions
            /\ \A k \in (emails \cup emails') \ {m} :
                  RowsOf(analysis', k) = RowsOf(analysis, k)
            /\ IF last'.ok
               THEN /\ emails' = emails \cup {m}
                    /\ Cardinality(RowsOf(analysis', m)) = 1
               ELSE /\ emails' = emails
                    /\ analysis' = analysis]_vars

(* the classifier failed on a new message: nothing of it is stored *)
C13_Witness ==
    /\ last.op = "scan" /\ ~last.ok
    /\ last.msg \notin emails
    /\ ~HasRow(analysis, last.msg)
    /\ emails # {}

(* C14: a message whose classification failed is not processed by the next *)
(* ordinary scan; only a rescan analyses it again.                         *)
C14_FailedMessageOnlyRetriedByRescan ==
    [][(last.op \in PipelineOps /\ ~last.ok) =>
         ~(last'.op = "scan" /\ last'.msg = last.msg)]_vars

-----------------------------------------------------------------------------
(* Properties of the classifier output parser *)

(* C15: the parser validates field by field: text that is not JSON gives   *)
(* keep / 0.5 with the explanatory reasoning; otherwise a recommendation   *)
(* outside {delete, keep, archive} (or none) becomes keep and a valid one  *)
(* is kept, and when a recommendation is given the confidence is the given *)
(* number clamped to [0,1], 0.5 if absent or unparsable, and category and  *)
(* priority are the given ones, "unknown" and "medium" if absent.          *)
C15_PerFieldValidation ==
    last.op = "parse" =>
        LET r == last.result
        IN  IF ~input.json
            THEN /\ r.recommendation = "keep"
                 /\ r.confidence_score = Q(1, 2)
                 /\ r.reasoning = "Unable to parse AI response"
            ELSE /\ r.recommendation =
                      IF input.recommendation \in {"delete", "keep", "archive"}
                      THEN input.recommendation ELSE "keep"
                 /\ input.recommendation # Absent =>
                      /\ r.confidence_score =
                            IF input.confidence_score.kind = "number"
                            THEN Clamp01(input.confidence_score.value)
                            ELSE Q(1, 2)
                      /\ r.category = IF input.category = Absent THEN "unknown"
                                      ELSE input.category
                      /\ r.priority = IF input.priority = Absent THEN "medium"
                                      ELSE input.priority

-----------------------------------------------------------------------------
(* Properties of the rules engine as a whole *)

(* the outcome of the test of rule i on message e *)
RuleHolds(i, e) ==
    CASE i = 1 -> e.hasDate /\ is_old_event(e)
      [] i = 2 -> is_vip_sender(e)
      [] i = 3 -> is_event(e)
      [] i = 4 -> looks_like_personal(e)
      [] i = 5 -> e.hasDate /\ is_old_job_offer(e)
      [] i = 6 -> e.hasDate /\ is_old_newsletter(e)
      [] i = 7 -> e.hasDate /\ is_old_promotional(e)

(* the fixed verdict of each rule *)
RuleTable ==
    << [recommendation |-> "delete", confidence_score |-> Pct(93),
        rule_matched |-> "old_event"],
       [recommendation |-> "keep", confidence_score |-> Pct(99),
        rule_matched |-> "vip_sender"],
       [recommendation |-> "keep", confidence_score |-> Pct(95),
        rule_matched |-> "event"],
       [recommendation |-> "keep", confidence_score |-> Pct(90),
        rule_matched |-> "personal_contact"],
       [recommendation |-> "delete", confidence_score |-> Pct(92),
        rule_matched |-> "old_job_offer"],
       [recommendation |-> "delete", confidence_score |-> Pct(93),
        rule_matched |-> "old_newsletter"],
       [recommendation |-> "delete", confidence_score |-> Pct(94),
        rule_matched |-> "old_promotional"] >>

HoldingRules(e) == {i \in DOMAIN RuleTable : RuleHolds(i, e)}

(* C23: check_email returns the fixed verdict of the lowest-numbered rule  *)
(* whose test holds, in the order old event, VIP sender, event, personal   *)
(* contact, old job offer, old newsletter, old promotional, and returns    *)
(* None iff no test holds.                                                 *)
C23_FirstMatchWins ==
    last.op = "check_email" =>
        LET held == HoldingRules(input)
        IN  /\ (last.result = None) <=> (held = {})
            /\ held # {} =>
                  LET first == CHOOSE i \in held : \A k \in held : i <= k
                  IN  /\ last.result.recommendation =
                            RuleTable[first].recommendation
                      /\ last.result.confidence_score =
                            RuleTable[first].confidence_score
                      /\ last.result.rule_matched =
                            RuleTable[first].rule_matched

(* the tests of rules 5, 6 and 7 all hold and the verdict is rule 5's *)
C23_Witness ==
    /\ last.op = "check_email"
    /\ HoldingRules(input) = {5, 6, 7}
    /\ last.result.rule_matched = "old_job_offer"
    /\ last.result.confidence_score = Pct(92)

(* C24: the confidence _process_email stores for a model-sourced verdict   *)
(* is the calibrator's output for the classifier's stated confidence under *)
(* the bucket statistics of that moment, whatever the size of the          *)
(* correction.                                                             *)
C24_StoredIsCalibrated ==
    [][\A m \in input.inbox, reply \in Replies :
        (/\ last'.op \in PipelineOps /\ last'.msg = m /\ last'.ok
         /\ (ScanNew(m, reply) \/ ScanRescan(m, reply))) =>
            \A r \in RowsOf(analysis', m) :
               r.model_name = "llm" =>
                  r.confidence_score =
                     calibrate_confidence(analyze_email(reply).confidence_score,
                                          emails, analysis, decisions)]_vars

(* the bucket the five intervals [0,0.5), [0.5,0.7), [0.7,0.85),           *)
(* [0.85,0.95), [0.95,1.0] give to a confidence                            *)
IntervalOf(c) ==
    IF QLt(c, Pct(50)) THEN "very_low"
    ELSE IF QLt(c, Pct(70)) THEN "low"
    ELSE IF QLt(c, Pct(85)) THEN "medium"
    ELSE IF QLt(c, Pct(95)) THEN "high"
    ELSE "very_high"

(* C25: every stated confidence in [0,1] is assigned by                    *)
(* calibrate_confidence to exactly one of the five buckets, the boundaries *)
(* 0.5, 0.7, 0.85, 0.95 to the upper bucket and 1.0 to the last, and the   *)
(* statistics count a verdict stored with that confidence in that bucket   *)
(* and in no other.                                                        *)
C25_BucketsPartition ==
    last.op = "bucket" =>
        /\ last.result = IntervalOf(input.stated)
        /\ last.counted = {last.result}
        /\ Cardinality({i \in DOMAIN buckets :
                           InBucketFilter(input.stated, buckets[i])}) = 1

(* the boundary 0.85 assigned to and counted in the bucket above it *)
C25_Witness ==
    /\ last.op = "bucket"
    /\ input.stated = Pct(85)
    /\ last.result = "high"
    /\ last.counted = {"high"}

-----------------------------------------------------------------------------
(* Properties of the installation in operation *)

ReviewOps == {"decide", "decide_bulk", "apply_recommendations"}

(* the messages a review step recorded a decision for *)
Touched(l) == IF l.op = "decide" THEN {l.msg} ELSE l.updated

(* C21: at most one Decision row exists per message after any sequence of  *)
(* single and bulk review actions; a review action on a message with a     *)
(* Decision succeeds and leaves exactly one row for it, so the number of   *)
(* rows grows only by the messages decided for the first time, and the     *)
(* rows of the other messages stay as they were.                           *)
C21_OneDecisionPerMessage ==
    /\ [](UniqueEmailId(decisions))
    /\ [][(last'.op \in ReviewOps) =>
            /\ last'.op = "decide" => last'.ok
            /\ ~last'.ok => UNCHANGED <<decisions, analysis>>
            /\ last'.ok =>
                  /\ \A m \in Touched(last') :
                        Cardinality({d \in decisions' : d.email_id = m}) = 1
                  /\ Cardinality(decisions') =
                        Cardinality(decisions) +
                        Cardinality({m \in Touched(last') :
                                        ~HasRow(decisions, m)})
                  /\ \A d \in decisions :
                        d.email_id \notin Touched(last') => d \in decisions'
       ]_vars

(* a bulk request updated two messages, one of which already had a         *)
(* Decision row, and each has one row now                                  *)
C21_Witness ==
    /\ last.op \in {"decide_bulk", "apply_recommendations"}
    /\ last.ok
    /\ Cardinality(last.updated) = 2
    /\ last.existing # {}
    /\ \A m \in last.updated :
          Cardinality({d \in decisions : d.email_id = m}) = 1

-----------------------------------------------------------------------------
(* Properties of concurrent scanner processes *)

(* C22: when two invocations of the pipeline run on the same message and   *)
(* both saw no stored row for it, the committed tables never hold two      *)
(* verdicts for it nor a message without its verdict: the invocation that  *)
(* flushed its Email row and has a verdict commits both rows together, the *)
(* invocation that finds the other's row committed fails, and a failed     *)
(* invocation leaves the committed tables as they were.                    *)
C22_ConflictFailsAtomically ==
    /\ [](/\ UniqueEmailId(analysis)
          /\ \A m \in emails : HasRow(analysis, m)
          /\ \A r \in analysis : r.email_id \in emails)
    /\ [][\A w \in Workers :
            (sessions[w].pc # "idle" /\ sessions'[w].pc = "idle") =>
               LET m == sessions[w].msg
               IN  /\ last'.worker = w /\ last'.msg = m
                   /\ ~last'.ok => UNCHANGED <<emails, analysis>>
                   /\ last'.ok =>
                         /\ emails' = emails \cup {m}
                         /\ analysis' = WithoutRows(analysis, {m}) \cup
                                           {AnalysisRow(m, sessions[w].res)}
                   /\ (~sessions[w].exists /\ m \in emails) => ~last'.ok
                   /\ (~sessions[w].exists /\ sessions[w].pc = "analysed")
                         => last'.ok
       ]_vars

(* an invocation that saw no row for the message has just failed on the    *)
(* row the other invocation committed; the message has its one verdict     *)
C22_Witness ==
    /\ last.op = "process"
    /\ ~last.ok
    /\ last.error = "integrity"
    /\ last.msg \in emails
    /\ Cardinality({r \in analysis : r.email_id = last.msg}) = 1

(* C26: delete_approved_emails deletes from the mail server only messages  *)
(* whose delete recommendation the user approved: each message it deletes  *)
(* has a decision that approved a delete recommendation for it and is not  *)
(* already marked deleted, deleted_at is set only when the server delete   *)
(* succeeded, and a dry run changes nothing.                               *)
C26_DeletesOnlyApprovedDeletes ==
    [][\A dry_run \in BOOLEAN :
         \A outcome \in [get_approved_deletions -> DeleteOutcomes] :
           DeleteApprovedEmails(dry_run, outcome) =>
              /\ dry_run =>
                    UNCHANGED <<emails, analysis, decisions, input, deleted_at>>
              /\ \A m \in get_approved_deletions :
                    (~dry_run /\ (m \in deleted_at' \/ m \notin input'.inbox)) =>
                       /\ m \in approved_delete
                       /\ m \notin deleted_at
                       /\ HasRow(decisions, m)
                       /\ delete_email(outcome[m])
              /\ deleted_at' \ deleted_at \subseteq
                    {m \in get_approved_deletions : delete_email(outcome[m])}]_vars

(* C27: rescan_email and _process_email in rescan mode implement the same  *)
(* decision procedure: for the same message and the same database state    *)
(* they store the same recommendation, confidence and source tier.         *)
C27_RescanSameProcedure ==
    [][\A m \in input.inbox, reply \in Replies \cup {None} :
        (/\ last'.op = "rescan_email" /\ last'.msg = m /\ last'.ok
         /\ RescanEmail(m, reply)) =>
            LET res == AnalysisResult(m, reply, emails, analysis, decisions)
            IN  /\ res # None
                /\ \A r \in RowsOf(analysis', m) :
                      /\ r.recommendation = res.recommendation
                      /\ r.confidence_score = res.confidence_score
                      /\ r.model_name = res.model_name]_vars

(* the Decision rows of the message of an Analysis row *)
DecisionsFor(r) == {d \in decisions : d.email_id = r.email_id}

(* C28: an Analysis row whose status is approved has a Decision for the    *)
(* same message with approved TRUE, one whose status is rejected has a     *)
(* Decision with approved FALSE; and every operation other than a review   *)
(* request leaves each status as it was or moves it to pending_review.     *)
C28_StatusMatchesDecision ==
    /\ [](\A r \in analysis :
            /\ r.status = "approved" =>
                  \E d \in DecisionsFor(r) : d.approved
            /\ r.status = "rejected" =>
                  \E d \in DecisionsFor(r) : ~d.approved)
    /\ [][last'.op \notin ReviewOps =>
            \A r \in analysis' :
               \/ r.status = "pending_review"
               \/ \E old \in analysis :
                     old.email_id = r.email_id /\ old.status = r.status]_vars

(* a sync has restored an approved message, whose status is pending again  *)
(* while its Decision still says approved, next to a rejected message      *)
C28_Witness ==
    /\ last.op = "sync"
    /\ \E r \in analysis :
          /\ r.email_id \in last.restored
          /\ r.status = "pending_review"
          /\ \E d \in DecisionsFor(r) : d.approved
    /\ \E r \in analysis :
          /\ r.status = "rejected"
          /\ \E d \in DecisionsFor(r) : ~d.approved

RemovalOps == {"sync", "cleanup_old"}

(* C29: every Analysis row and every Decision row belongs to an existing   *)
(* Email row; a Decision row is only created for a message that has an     *)
(* Analysis row; sync removal and the cleanup of old deleted messages      *)
(* remove a message's Analysis and Decision together with the message.     *)
C29_ReferentialIntegrity ==
    /\ [](/\ \A r \in analysis : r.email_id \in emails
          /\ \A d \in decisions : d.email_id \in emails)
    /\ [][/\ \A d \in decisions' :
              (~HasRow(decisions, d.email_id)) =>
                   (HasRow(analysis, d.email_id) /\
                    HasRow(analysis', d.email_id))
          /\ (last'.op \in RemovalOps) =>
                (/\ emails' = emails \ last'.removed
                 /\ \A m \in last'.removed :
                       ~HasRow(analysis', m) /\ ~HasRow(decisions', m))]_vars

(* the cleanup of old deleted messages has removed a reviewed message with *)
(* its rows while another reviewed message stays                           *)
C29_Witness ==
    /\ last.op = "cleanup_old"
    /\ last.removed # {}
    /\ last.removed \cap emails = {}
    /\ \A m \in last.removed : ~HasRow(analysis, m) /\ ~HasRow(decisions, m)
    /\ \E d \in decisions : d.email_id \in emails /\ HasRow(analysis, d.email_id)

(* C30: a scan that is not a rescan neither fetches nor re-analyses a      *)
(* message whose uid is already stored: the Analysis row, review status    *)
(* and Decision of every stored message are unchanged by the scan, and the *)
(* returned count is the number of messages whose verdict this scan        *)
(* committed.                                                              *)
C30_ScanLeavesStoredMessages ==
    [][last'.op = "scan_run" =>
         /\ last'.fetched \cap emails = {}
         /\ \A m \in emails :
               /\ m \in emails'
               /\ RowsOf(analysis', m) = RowsOf(analysis, m)
               /\ RowsOf(decisions', m) = RowsOf(decisions, m)
         /\ last'.count = Cardinality(emails' \ emails)]_vars

====
